---- MODULE Spec2Model ----
(***************************************************************************)
(* Request routing, validation and error mapping of the ts-template HTTP   *)
(* backend: HandlerFactory.findHandler, HttpRouter.handle/executeHandler,  *)
(* SchemaValidationService.validate, HttpErrorHandler.handleError and the  *)
(* request handlers they dispatch to.                                      *)
(*                                                                         *)
(* Strings whose characters matter (HTTP methods, names, emails) are       *)
(* sequences of one-character strings; object keys, codes and messages     *)
(* are TLA+ strings.  A JSON value is a record [t, v]: t is its type and   *)
(* v its characters (string) or its key -> value function (object).        *)
(***************************************************************************)
EXTENDS Integers, Sequences, FiniteSets, TLC

\* ------------------------------------------------------------------ bounds
\* Longest handler list injected into the HandlerFactory.
MaxHandlers == 2
\* Date.now() is read from 0..MaxClock (milliseconds since the epoch).
MaxClock == 1
\* Users the id counter may hand out ids for, and use-case calls in progress.
MaxUsers == 2
MaxCallers == 2
\* Shutdowns asked of the process: signals delivered and direct calls.
MaxSignals == 2

\* ----------------------------------------------------------------- strings
LowerLetters == <<"a", "b", "e", "g", "i", "o", "p", "s", "t", "u">>
UpperLetters == <<"A", "B", "E", "G", "I", "O", "P", "S", "T", "U">>

\* String.prototype.toUpperCase / toLowerCase, one character at a time.
UpperChar(c) ==
    IF \E i \in DOMAIN LowerLetters : LowerLetters[i] = c
    THEN UpperLetters[CHOOSE i \in DOMAIN LowerLetters : LowerLetters[i] = c]
    ELSE c

LowerChar(c) ==
    IF \E i \in DOMAIN UpperLetters : UpperLetters[i] = c
    THEN LowerLetters[CHOOSE i \in DOMAIN UpperLetters : UpperLetters[i] = c]
    ELSE c

toUpperCase(s) == [i \in DOMAIN s |-> UpperChar(s[i])]

toLowerCase(s) == [i \in DOMAIN s |-> LowerChar(s[i])]

\* The HttpMethod union: handler.method is one of these, already uppercase.
GET == <<"G", "E", "T">>
POST == <<"P", "O", "S", "T">>
PUT == <<"P", "U", "T">>
HttpMethod == {GET, POST, PUT}

\* request.method as the runtime hands it over: any casing.
RequestMethods == {GET, <<"g", "e", "t">>, POST, <<"P", "o", "s", "t">>, PUT}

\* ------------------------------------------------------------------- paths
\* A pathname is its sequence of segments; a route pattern is a sequence of
\* literal segments and named (":id") segments.
Lit(s) == [kind |-> "lit", v |-> s]
Param(n) == [kind |-> "param", v |-> n]

NoMatch == [matched |-> FALSE]

\* match(pattern)(pathname) of path-to-regexp: false, or {path, params} with
\* one captured segment per named segment.
match(pattern, pathname) ==
    IF /\ Len(pattern) = Len(pathname)
       /\ \A i \in DOMAIN pattern :
              pattern[i].kind = "lit" => pattern[i].v = pathname[i]
    THEN [matched |-> TRUE,
          path |-> pathname,
          params |-> [n \in {pattern[i].v : i \in {j \in DOMAIN pattern :
                                                    pattern[j].kind = "param"}}
                        |-> pathname[CHOOSE i \in DOMAIN pattern :
                                        pattern[i] = Param(n)]]]
    ELSE NoMatch

RequestPaths == {<<"health">>, <<"users">>, <<"users", "1">>, <<"nope">>}

\* ------------------------------------------------------------- JSON values
Undefined == [t |-> "undefined"]
Null == [t |-> "null"]
Str(s) == [t |-> "string", v |-> s]
Obj(f) == [t |-> "object", v |-> f]

\* ------------------------------------------------------------- zod schemas
\* A schema is z.object(shape) or a string schema with its checks in
\* declaration order; a check validates (min, max, email) or overwrites the
\* value (trim, toLowerCase).
Check(kind, n, message) == [kind |-> kind, n |-> n, message |-> message]
StringSchema(checks) == [t |-> "string", checks |-> checks]
ObjectSchema(shape) == [t |-> "object", shape |-> shape]
Field(key, schema) == [key |-> key, schema |-> schema]

NameMaxLength == 100

\* An email schema that keeps the address as typed.
EmailSchemaAsTyped ==
    StringSchema(<<Check("email", 0, "Invalid email address"),
                   Check("trim", 0, "")>>)

\* z.email().toLowerCase().trim()
EmailSchema ==
    StringSchema(<<Check("email", 0, "Invalid email address"),
                   Check("toLowerCase", 0, ""),
                   Check("trim", 0, "")>>)

\* z.string().min(1, ...).max(100, ...).trim()
NameSchema ==
    StringSchema(<<Check("min", 1, "Name is required"),
                   Check("max", NameMaxLength,
                         "Name must be less than 100 characters"),
                   Check("trim", 0, "")>>)

CreateUserSchema ==
    ObjectSchema(<<Field("name", NameSchema), Field("email", EmailSchema)>>)

UserParamsSchema ==
    ObjectSchema(<<Field("id",
        StringSchema(<<Check("min", 1, "User ID is required")>>))>>)

EmptyParamsSchema == ObjectSchema(<<>>)

\* A query schema as a handler would declare it: one required string.
PageQuerySchema ==
    ObjectSchema(<<Field("page",
        StringSchema(<<Check("min", 1, "Page is required")>>))>>)

\* A body schema as a handler would declare it: a nested object and a string
\* with two validations that can fail together.
ContactSchema ==
    StringSchema(<<Check("min", 6, "Email is too short"),
                   Check("email", 0, "Invalid email address")>>)

RegisterSchema ==
    ObjectSchema(<<Field("user", CreateUserSchema),
                   Field("contact", ContactSchema)>>)

\* "No schema declared" (the handler's optional property is undefined).
NoSchema == [t |-> "none"]

Whitespace == {" "}

RECURSIVE trimStart(_)
trimStart(s) ==
    IF s # <<>> /\ Head(s) \in Whitespace THEN trimStart(Tail(s)) ELSE s

RECURSIVE trimEnd(_)
trimEnd(s) ==
    IF s # <<>> /\ s[Len(s)] \in Whitespace
    THEN trimEnd(SubSeq(s, 1, Len(s) - 1))
    ELSE s

trim(s) == trimEnd(trimStart(s))

Letters ==
    {LowerLetters[i] : i \in DOMAIN LowerLetters}
        \cup {UpperLetters[i] : i \in DOMAIN UpperLetters}

EmailLocalChars == Letters \cup {"1", "_", "+", "-"}

EmailDomainChars == Letters \cup {"1", "-"}

\* The email format check, reduced to what the bounded inputs exercise: one
\* "@", a non-empty local part of permitted characters, and a domain of two
\* labels whose last has at least two letters.  Whitespace is not permitted.
IsEmail(s) ==
    \E at \in DOMAIN s, dot \in DOMAIN s :
        /\ s[at] = "@"
        /\ s[dot] = "."
        /\ at > 1
        /\ dot > at + 1
        /\ Len(s) - dot >= 2
        /\ \A i \in DOMAIN s :
               /\ i < at => s[i] \in EmailLocalChars
               /\ (i > at /\ i < dot) => s[i] \in EmailDomainChars
               /\ i > dot => s[i] \in Letters

Issue(path, message) == [path |-> path, message |-> message]

InvalidType(expected, data) ==
    Issue(<<>>, "Invalid input: expected " \o expected \o ", received " \o data.t)

\* The checks of a string schema, run in order on the current value: a failed
\* validation adds an issue and the run continues; an overwrite replaces the
\* value seen by the later checks.
RECURSIVE RunChecks(_, _, _)
RunChecks(checks, val, issues) ==
    IF checks = <<>> THEN [value |-> Str(val), issues |-> issues]
    ELSE LET c == Head(checks)
             rest == Tail(checks)
         IN  CASE c.kind = "min" ->
                    RunChecks(rest, val,
                        IF Len(val) < c.n
                        THEN Append(issues, Issue(<<>>, c.message)) ELSE issues)
               [] c.kind = "max" ->
                    RunChecks(rest, val,
                        IF Len(val) > c.n
                        THEN Append(issues, Issue(<<>>, c.message)) ELSE issues)
               [] c.kind = "email" ->
                    RunChecks(rest, val,
                        IF ~IsEmail(val)
                        THEN Append(issues, Issue(<<>>, c.message)) ELSE issues)
               [] c.kind = "trim" -> RunChecks(rest, trim(val), issues)
               [] c.kind = "toLowerCase" ->
                    RunChecks(rest, toLowerCase(val), issues)

Prefixed(key, issues) ==
    [i \in DOMAIN issues |->
        Issue(<<key>> \o issues[i].path, issues[i].message)]

\* schema.safeParse(data): the parsed value and the issues, in schema order.
\* z.object keeps the declared keys only; a missing key reaches its field
\* schema as undefined.
RECURSIVE safeParse(_, _)
RECURSIVE ParseShape(_, _, _, _)
ParseShape(shape, data, out, issues) ==
    IF shape = <<>> THEN [value |-> Obj(out), issues |-> issues]
    ELSE LET f == Head(shape)
             raw == IF f.key \in DOMAIN data.v THEN data.v[f.key] ELSE Undefined
             r == safeParse(f.schema, raw)
         IN  ParseShape(Tail(shape), data,
                        [k \in DOMAIN out \cup {f.key} |->
                            IF k = f.key THEN r.value ELSE out[k]],
                        issues \o Prefixed(f.key, r.issues))

safeParse(schema, data) ==
    CASE schema.t = "object" ->
            IF data.t # "object"
            THEN [value |-> Undefined, issues |-> <<InvalidType("object", data)>>]
            ELSE ParseShape(schema.shape, data, <<>>, <<>>)
      [] schema.t = "string" ->
            IF data.t # "string"
            THEN [value |-> Undefined, issues |-> <<InvalidType("string", data)>>]
            ELSE RunChecks(schema.checks, data.v, <<>>)

\* issue.path.join(".")
RECURSIVE join(_)
join(path) ==
    IF path = <<>> THEN ""
    ELSE IF Len(path) = 1 THEN path[1]
    ELSE path[1] \o "." \o join(Tail(path))

RECURSIVE MessagesOf(_, _)
MessagesOf(issues, field) ==
    IF issues = <<>> THEN <<>>
    ELSE (IF join(Head(issues).path) = field
          THEN <<Head(issues).message>> ELSE <<>>)
            \o MessagesOf(Tail(issues), field)

\* A grouping that reports the first issue only.
FieldErrorsOfFirstOnly(issues) ==
    [field \in {join(issues[i].path) : i \in DOMAIN issues \cap {1}} |->
        <<issues[1].message>>]

\* The forEach over error.issues that groups the messages by dotted path.
FieldErrorsOf(issues) ==
    [field \in {join(issues[i].path) : i \in DOMAIN issues} |->
        MessagesOf(issues, field)]

\* ------------------------------------------------------------------ errors
\* A thrown value is a record with its class; an ApplicationError carries
\* code, statusCode and (when given) details.
PlainError(message) == [class |-> "Error", message |-> message]

ApplicationError(class, message, code, statusCode, details) ==
    [class |-> class, message |-> message, code |-> code,
     statusCode |-> statusCode, details |-> details]

ApplicationErrorClasses ==
    {"SchemaValidationError", "InvalidRequestError", "NotFoundError",
     "ConflictError", "RouteNotFoundError", "InvalidConfigError",
     "UnauthorizedError", "ForbiddenError"}

IsApplicationError(e) == e.class \in ApplicationErrorClasses

SchemaValidationError(message, fieldErrors) ==
    ApplicationError("SchemaValidationError", message, "SCHEMA_VALIDATION", 400,
                     [fieldErrors |-> fieldErrors])

InvalidRequestError(message, details) ==
    ApplicationError("InvalidRequestError", message, "INVALID_REQUEST", 400,
                     details)

NotFoundError(resource, identifier) ==
    ApplicationError("NotFoundError",
                     resource \o " with identifier " \o identifier \o " not found",
                     "NOT_FOUND", 404,
                     [resource |-> resource, identifier |-> identifier])

ConflictError(message, resource, field) ==
    ApplicationError("ConflictError", message, "CONFLICT", 409,
                     [resource |-> resource, field |-> field])

InvalidConfigError(field, reason) ==
    ApplicationError("InvalidConfigError",
                     "Invalid configuration for " \o field \o ": " \o reason,
                     "INVALID_CONFIG", 500, [field |-> field, reason |-> reason])

RouteNotFoundError(path) ==
    ApplicationError("RouteNotFoundError", "No route found for path: " \o path,
                     "ROUTE_NOT_FOUND", 404, [path |-> path])

\* Errors constructed without details.
UnauthorizedError(message) ==
    [class |-> "UnauthorizedError", message |-> message, code |-> "UNAUTHORIZED",
     statusCode |-> 401]

ForbiddenError(message) ==
    [class |-> "ForbiddenError", message |-> message, code |-> "FORBIDDEN",
     statusCode |-> 403]

\* ApplicationError.toJSON(): details only when the error has them.
toJSON(e) ==
    IF "details" \in DOMAIN e
    THEN [code |-> e.code, message |-> e.message, details |-> e.details]
    ELSE [code |-> e.code, message |-> e.message]

Ok(value) == [ok |-> TRUE, value |-> value]
Throw(error) == [ok |-> FALSE, error |-> error]

\* ---------------------------------------------------- schema validation
\* SchemaValidationService.validate: the parsed data, or a
\* SchemaValidationError carrying the field errors of the ZodError.
validate(data, schema) ==
    LET r == safeParse(schema, data)
    IN  IF r.issues = <<>>
        THEN Ok(r.value)
        ELSE Throw(SchemaValidationError("Schema validation failed",
                                         FieldErrorsOf(r.issues)))

\* ------------------------------------------------------------ environment
\* Date.now() / new Date(), the suffix Math.random() yields, NODE_ENV.
Clock == 0 .. MaxClock
RandomSuffixes == {"k3x9", "p0q7"}
NodeEnvs == {"production", "development"}

Digits == <<"0", "1", "2", "3", "4", "5", "6", "7", "8", "9">>

\* Date.prototype.toISOString() of the millisecond t (t < 10).
toISOString(t) == "1970-01-01T00:00:00.00" \o Digits[t + 1] \o "Z"

\* `req_${Date.now()}_${Math.random().toString(36).substring(2, 9)}`
generateCorrelationId(t, r) == "req_" \o Digits[t + 1] \o "_" \o r

\* ---------------------------------------------------------- error handler
LogEntry(level, message) == [level |-> level, message |-> message]

Response(status, body) == [status |-> status, body |-> body]

\* HttpErrorHandler.logError: the one log entry of a handled error.
logError(error) ==
    IF ~IsApplicationError(error)
    THEN LogEntry("error", "Unexpected error occurred")
    ELSE IF error.statusCode >= 500
    THEN LogEntry("error", "Application error occurred")
    ELSE IF error.statusCode >= 400
    THEN LogEntry("warn", "Client error occurred")
    ELSE LogEntry("info", "Application error occurred")

\* url.pathname as text.
RECURSIVE pathString(_)
pathString(path) ==
    IF path = <<>> THEN "" ELSE "/" \o Head(path) \o pathString(Tail(path))

getValidationErrorMessage(error, context) ==
    IF context.handlerName # <<>> /\ error.issues # <<>>
    THEN "Invalid route parameter '" \o join(error.issues[1].path) \o "' in "
            \o pathString(context.requestPath) \o ": " \o error.issues[1].message
    ELSE "Request validation failed"

\* The branch taken for a raw z.ZodError.
handleValidationError(error, context, t) ==
    Response(400,
        [error |-> [code |-> "VALIDATION_ERROR",
                    message |-> getValidationErrorMessage(error, context),
                    details |-> [fieldErrors |-> FieldErrorsOf(error.issues),
                                 issues |-> error.issues]],
         timestamp |-> toISOString(t),
         requestId |-> context.correlationId])

\* A handleApplicationError that answers every application error with 500.
handleApplicationErrorAs500(error, context, t) ==
    Response(500,
        [error |-> toJSON(error),
         timestamp |-> toISOString(t),
         requestId |-> context.correlationId])

handleApplicationError(error, context, t) ==
    Response(error.statusCode,
        [error |-> toJSON(error),
         timestamp |-> toISOString(t),
         requestId |-> context.correlationId])

\* A handleUnknownError that sends the error's own message everywhere.
handleUnknownErrorLiteral(error, context, t, env) ==
    Response(500,
        [error |-> [code |-> "INTERNAL_SERVER_ERROR", message |-> error.message],
         timestamp |-> toISOString(t),
         requestId |-> context.correlationId])

\* A handleUnknownError that sends the stack everywhere.
handleUnknownErrorWithStack(error, context, t, env) ==
    Response(500,
        [error |-> [code |-> "INTERNAL_SERVER_ERROR",
                    message |->
                      IF env = "production"
                      THEN "An unexpected error occurred. Please try again later."
                      ELSE error.message,
                    stack |-> error.class \o ": " \o error.message],
         timestamp |-> toISOString(t),
         requestId |-> context.correlationId])

handleUnknownError(error, context, t, env) ==
    Response(500,
        [error |-> IF env = "production"
                   THEN [code |-> "INTERNAL_SERVER_ERROR",
                         message |->
                           "An unexpected error occurred. Please try again later."]
                   ELSE [code |-> "INTERNAL_SERVER_ERROR",
                         message |-> error.message,
                         stack |-> error.class \o ": " \o error.message],
         timestamp |-> toISOString(t),
         requestId |-> context.correlationId])

\* HttpErrorHandler.handleError: the response and the log entry it writes.
handleError(error, context, t, r, env) ==
    LET fullContext ==
            [handlerName |-> context.handlerName,
             requestMethod |-> context.requestMethod,
             requestPath |-> context.requestPath,
             correlationId |-> generateCorrelationId(t, r)]
    IN  [log |-> logError(error),
         context |-> fullContext,
         response |->
            IF error.class = "ZodError"
            THEN handleValidationError(error, fullContext, t)
            ELSE IF IsApplicationError(error)
            THEN handleApplicationError(error, fullContext, t)
            ELSE handleUnknownError(error, fullContext, t, env)]

\* ---------------------------------------------------------------- requests
\* The body of a request: whether JSON.parse accepts its text, and the value
\* it parses to.
Body(parseable, json) == [parseable |-> parseable, json |-> json]

NoBody == Body(FALSE, Undefined)

ValidUser ==
    Obj([name |-> Str(<<"B", "o">>),
         email |-> Str(<<"A", "@", "b", ".", "i", "o">>)])

InvalidUser == Obj([name |-> Str(<<>>), email |-> Str(<<"a", "b">>)])

\* content-type header and body, as sent.
RequestBodies ==
    {[contentType |-> "none", body |-> NoBody],
     [contentType |-> "application/json", body |-> NoBody],
     [contentType |-> "application/json", body |-> Body(TRUE, ValidUser)],
     [contentType |-> "application/json; charset=utf-8",
      body |-> Body(TRUE, InvalidUser)],
     [contentType |-> "text/plain", body |-> Body(TRUE, ValidUser)]}

\* Object.fromEntries(url.searchParams.entries())
RequestQueries == {Obj(<<>>), Obj([page |-> Str(<<"1">>)])}

Requests ==
    {[method |-> m, path |-> p, query |-> q,
      contentType |-> b.contentType, body |-> b.body] :
        m \in RequestMethods, p \in RequestPaths, q \in RequestQueries,
        b \in RequestBodies}

NoRequest ==
    [method |-> <<>>, path |-> <<>>, query |-> Obj(<<>>),
     contentType |-> "none", body |-> NoBody]

\* contentType?.includes("application/json")
IncludesJson(contentType) ==
    contentType \in {"application/json", "application/json; charset=utf-8"}

\* request.json(): rejects on a consumed body, rejects on text that is not
\* JSON, otherwise yields the value.  It consumes the body in every case.
json(req, bodyUsed) ==
    IF bodyUsed
    THEN Throw([class |-> "TypeError", message |-> "Body already used"])
    ELSE IF ~req.body.parseable
    THEN Throw([class |-> "SyntaxError", message |-> "Unexpected end of JSON input"])
    ELSE Ok(req.body.json)

\* ---------------------------------------------------------------- handlers
Handler(name, pathname, method, paramsSchema, querySchema, bodySchema) ==
    [name |-> name, pathname |-> pathname, method |-> method,
     paramsSchema |-> paramsSchema, querySchema |-> querySchema,
     bodySchema |-> bodySchema]

\* The request handlers that can be registered under TOKENS.REQUEST_HANDLER:
\* the repository's own, and two further implementations of IRequestHandler
\* that share their paths under another method and declare a query schema.
HealthRequestHandler ==
    Handler("HealthRequestHandler", <<Lit("health")>>, GET,
            NoSchema, NoSchema, NoSchema)

CreateUserRequestHandler ==
    Handler("CreateUserRequestHandler", <<Lit("users")>>, POST,
            EmptyParamsSchema, NoSchema, CreateUserSchema)

GetUserRequestHandler ==
    Handler("GetUserRequestHandler", <<Lit("users"), Param("id")>>, GET,
            UserParamsSchema, NoSchema, NoSchema)

ImportUsersRequestHandler ==
    Handler("ImportUsersRequestHandler", <<Lit("users")>>, PUT,
            EmptyParamsSchema, PageQuerySchema, CreateUserSchema)

ReplaceUserRequestHandler ==
    Handler("ReplaceUserRequestHandler", <<Lit("users"), Param("id")>>, PUT,
            UserParamsSchema, PageQuerySchema, CreateUserSchema)

RegisterRequestHandler ==
    Handler("RegisterRequestHandler", <<Lit("users")>>, POST,
            NoSchema, NoSchema, RegisterSchema)

RouteNotFoundHandler ==
    Handler("RouteNotFoundHandler", <<Lit("*")>>, GET,
            NoSchema, NoSchema, NoSchema)

HandlerPool ==
    {HealthRequestHandler, CreateUserRequestHandler, GetUserRequestHandler,
     ImportUsersRequestHandler, ReplaceUserRequestHandler}

HandlerNames == {h.name : h \in HandlerPool}

HandlerDef(name) ==
    IF name = RouteNotFoundHandler.name THEN RouteNotFoundHandler
    ELSE CHOOSE h \in HandlerPool \cup {RegisterRequestHandler} : h.name = name

\* The lists @injectAll can build: registered handlers, in registration order.
RECURSIVE Registries(_)
Registries(n) ==
    IF n = 0 THEN {<<>>}
    ELSE LET shorter == Registries(n - 1)
         IN  shorter \cup
             {Append(hs, name) : hs \in {r \in shorter : Len(r) = n - 1},
                                 name \in HandlerNames}

NoRepeat(hs) == \A i, j \in DOMAIN hs : i # j => hs[i] # hs[j]

\* --------------------------------------------------------- handler factory
\* The match result of path-to-regexp as the object handed to the caller.
MatchValue(m) ==
    Obj([path |-> Str(m.path),
         params |-> Obj([n \in DOMAIN m.params |-> Str(<<m.params[n]>>)])])

NotFoundMatch == [handler |-> RouteNotFoundHandler.name, params |-> Obj(<<>>)]

\* The loop of findHandler from handler i on.
RECURSIVE Scan(_, _, _, _)
Scan(hs, i, pathname, normalizedMethod) ==
    IF i > Len(hs) THEN NotFoundMatch
    ELSE LET handler == HandlerDef(hs[i])
             matchResult == match(handler.pathname, pathname)
         IN  IF ~matchResult.matched
             THEN Scan(hs, i + 1, pathname, normalizedMethod)
             ELSE IF handler.method # normalizedMethod
             THEN Scan(hs, i + 1, pathname, normalizedMethod)
             ELSE [handler |-> hs[i], params |-> MatchValue(matchResult)]

\* A findHandler that gives up at the first handler whose path matches when
\* its method differs, instead of scanning on.
RECURSIVE ScanFirstPathMatch(_, _, _, _)
ScanFirstPathMatch(hs, i, pathname, normalizedMethod) ==
    IF i > Len(hs) THEN NotFoundMatch
    ELSE LET handler == HandlerDef(hs[i])
             matchResult == match(handler.pathname, pathname)
         IN  IF ~matchResult.matched
             THEN ScanFirstPathMatch(hs, i + 1, pathname, normalizedMethod)
             ELSE IF handler.method # normalizedMethod
             THEN NotFoundMatch
             ELSE [handler |-> hs[i], params |-> MatchValue(matchResult)]

findHandlerFirstPathMatch(hs, pathname, method) ==
    ScanFirstPathMatch(hs, 1, pathname, toUpperCase(method))

\* A findHandler that returns the first handler whose path matches, whatever
\* its method.
RECURSIVE ScanAnyMethod(_, _, _)
ScanAnyMethod(hs, i, pathname) ==
    IF i > Len(hs) THEN NotFoundMatch
    ELSE LET matchResult == match(HandlerDef(hs[i]).pathname, pathname)
         IN  IF ~matchResult.matched THEN ScanAnyMethod(hs, i + 1, pathname)
             ELSE [handler |-> hs[i], params |-> MatchValue(matchResult)]

findHandlerAnyMethod(hs, pathname, method) == ScanAnyMethod(hs, 1, pathname)

\* A findHandler that compares the method as received.
findHandlerNoNormalize(hs, pathname, method) == Scan(hs, 1, pathname, method)

\* HandlerFactory.findHandler(pathname, method)
findHandler(hs, pathname, method) == Scan(hs, 1, pathname, toUpperCase(method))

\* ------------------------------------------------------------------ router
VARIABLES
    handlers,    \* HandlerFactory.handlers: names, in registration order
    nodeEnv,     \* process.env.NODE_ENV
    pc,          \* where HttpRouter.handle is: idle, body, exec, done
    request,     \* the request being handled
    found,       \* what findHandler returned
    validated,   \* {params, query, body} as validated so far
    bodyUsed,    \* request.bodyUsed
    trace,       \* what happened to this request, in order
    logs,        \* warn/error/info entries written for this request
    response,    \* the Response handle() resolved with
    users,       \* MemoryUserRepository.users
    idCounter,   \* MemoryUserRepository.idCounter
    calls,       \* the CreateUserUseCase.execute calls in progress
    ledger,      \* what the repository has been asked to do so far
    attempts,    \* e-mail addresses of the create requests answered so far
    journal,     \* the last calls made to the use cases and the repository
    bootstrap,   \* AppBootstrapService, its server and the process
    signals      \* signals delivered to the process, listeners not yet run

vars ==
    <<handlers, nodeEnv, pc, request, found, validated, bodyUsed, trace, logs,
      response, users, idCounter, calls, ledger, attempts, journal, bootstrap,
      signals>>

routerVars ==
    <<handlers, nodeEnv, pc, request, found, validated, bodyUsed, trace, logs,
      response, attempts>>

storeVars == <<users, idCounter, ledger>>

lifeVars == <<bootstrap, signals>>

Ev(ev, part, ok) == [ev |-> ev, part |-> part, ok |-> ok]

NoResponse == Response(0, <<>>)

NoData == [params |-> Undefined, query |-> Undefined, body |-> Undefined]

\* validateParams / validateQueryParams / the validation of validateRequestBody:
\* undefined when the handler declares no schema.
validatePart(data, schema) ==
    IF schema.t = "none" THEN Ok(Undefined) ELSE validate(data, schema)

\* HttpRouter.parseRequestBody: [result, read] with read telling whether
\* request.json() was called.
parseRequestBody(req, used) ==
    IF IncludesJson(req.contentType)
    THEN LET r == json(req, used)
         IN  [read |-> TRUE,
              result |-> IF r.ok THEN r
                         ELSE Throw(PlainError("Invalid JSON body: "
                                                  \o r.error.message))]
    ELSE [read |-> FALSE, result |-> Ok(Null)]

RequestHandlerNames == {n \in HandlerNames \cup {RouteNotFoundHandler.name} :
                           n # RouteNotFoundHandler.name}

\* A createErrorContext that forgets the request path.
createErrorContextNoPath(req, frames) ==
    [handlerName |-> <<>>, requestMethod |-> req.method, requestPath |-> <<>>]

\* HttpRouter.createErrorContext: frames are the classes on error.stack,
\* innermost first; the handler name is the first *RequestHandler among them.
createErrorContext(req, frames) ==
    LET hits == SelectSeq(frames, LAMBDA f : f \in RequestHandlerNames)
    IN  [handlerName |-> IF hits = <<>> THEN <<>> ELSE <<Head(hits)>>,
         requestMethod |-> req.method,
         requestPath |-> req.path]

RouterFrames == <<"SchemaValidationService", "HttpRouter">>

\* The catch block of HttpRouter.handle.
Catch(req, error, frames, events, entries) ==
    \E t \in Clock, r \in RandomSuffixes :
        LET handled == handleError(error, createErrorContext(req, frames),
                                   t, r, nodeEnv)
        IN  /\ response' = handled.response
            /\ logs' = logs \o entries \o <<handled.log>>
            /\ trace' = trace \o events \o
                          <<[ev |-> "handleError", part |-> error.class, ok |-> TRUE,
                             error |-> error, context |-> handled.context]>>
            /\ pc' = "done"

\* An executeHandler that validates the query before the path parameters.
validateQueryThenParams(handler, requestParams, req) ==
    LET p == validatePart(requestParams, handler.paramsSchema)
        q == validatePart(req.query, handler.querySchema)
        pEv == IF handler.paramsSchema.t = "none" THEN <<>>
               ELSE <<Ev("validate", "params", p.ok)>>
        qEv == IF handler.querySchema.t = "none" THEN <<>>
               ELSE <<Ev("validate", "query", q.ok)>>
    IN  IF ~q.ok THEN [result |-> q, events |-> qEv, data |-> NoData]
        ELSE IF ~p.ok THEN [result |-> p, events |-> qEv \o pEv, data |-> NoData]
        ELSE [result |-> q, events |-> qEv \o pEv,
              data |-> [params |-> p.value, query |-> q.value, body |-> Undefined]]

\* The synchronous first half of HttpRouter.executeHandler: params, then
\* query.  events lists the validator calls made, in order.
validateParamsAndQuery(handler, requestParams, req) ==
    LET p == validatePart(requestParams, handler.paramsSchema)
        q == validatePart(req.query, handler.querySchema)
        pEv == IF handler.paramsSchema.t = "none" THEN <<>>
               ELSE <<Ev("validate", "params", p.ok)>>
        qEv == IF handler.querySchema.t = "none" THEN <<>>
               ELSE <<Ev("validate", "query", q.ok)>>
    IN  IF ~p.ok THEN [result |-> p, events |-> pEv, data |-> NoData]
        ELSE IF ~q.ok THEN [result |-> q, events |-> pEv \o qEv, data |-> NoData]
        ELSE [result |-> q, events |-> pEv \o qEv,
              data |-> [params |-> p.value, query |-> q.value, body |-> Undefined]]

\* A validateRequestBody that hands the parsed body on without validating it.
validateRequestBodyUnchecked(handler, req, used) ==
    IF handler.bodySchema.t = "none"
    THEN [result |-> Ok(Undefined), events |-> <<>>, used |-> used]
    ELSE LET parsed == parseRequestBody(req, used)
         IN  [result |-> parsed.result,
              events |-> IF parsed.read
                         THEN <<Ev("readBody", "router", parsed.result.ok)>>
                         ELSE <<>>,
              used |-> used \/ parsed.read]

\* HttpRouter.validateRequestBody: nothing is read without a body schema.
validateRequestBody(handler, req, used) ==
    IF handler.bodySchema.t = "none"
    THEN [result |-> Ok(Undefined), events |-> <<>>, used |-> used]
    ELSE LET parsed == parseRequestBody(req, used)
             rEv == IF parsed.read
                    THEN <<Ev("readBody", "router", parsed.result.ok)>> ELSE <<>>
         IN  IF ~parsed.result.ok
             THEN [result |-> parsed.result, events |-> rEv,
                   used |-> used \/ parsed.read]
             ELSE LET b == validate(parsed.result.value, handler.bodySchema)
                  IN  [result |-> b,
                       events |-> rEv \o <<Ev("validate", "body", b.ok)>>,
                       used |-> used \/ parsed.read]

\* ------------------------------------------------------------- user store
\* String(n) for the ids the counter yields (n < 10).
String(n) == Digits[n + 1]

\* A stored User; createdAt and updatedAt are Dates, kept as milliseconds.
User(id, name, email, createdAt, updatedAt) ==
    [id |-> id, name |-> name, email |-> email,
     createdAt |-> createdAt, updatedAt |-> updatedAt]

UserFields == {"id", "name", "email", "createdAt", "updatedAt"}

\* What a repository method leaves behind: its result, the users map and the
\* id counter.
Effect(result, store, counter) ==
    [result |-> result, users |-> store, idCounter |-> counter]

\* users.set(id, user)
Set(store, id, user) ==
    [k \in DOMAIN store \cup {id} |-> IF k = id THEN user ELSE store[k]]

\* A create that does not look for the email among the stored users.
createUnchecked(store, counter, userData, now) ==
    LET id == String(counter)
        user == User(id, userData.name, userData.email, now, now)
    IN  Effect(Ok(user), Set(store, id, user), counter + 1)

\* A create that reads the id counter without advancing it.
createStaleCounter(store, counter, userData, now) ==
    IF \E k \in DOMAIN store : store[k].email = userData.email
    THEN Effect(Throw(ConflictError("User with this email already exists",
                                     "User", "email")), store, counter)
    ELSE LET id == String(counter)
             user == User(id, userData.name, userData.email, now, now)
         IN  Effect(Ok(user), Set(store, id, user), counter)

\* A create that takes its id from the counter before it looks for the email.
createCountingFirst(store, counter, userData, now) ==
    IF \E k \in DOMAIN store : store[k].email = userData.email
    THEN Effect(Throw(ConflictError("User with this email already exists",
                                     "User", "email")), store, counter + 1)
    ELSE LET id == String(counter)
             user == User(id, userData.name, userData.email, now, now)
         IN  Effect(Ok(user), Set(store, id, user), counter + 1)

\* MemoryUserRepository.create: no await inside, so it runs as one step.
create(store, counter, userData, now) ==
    IF \E k \in DOMAIN store : store[k].email = userData.email
    THEN Effect(Throw(ConflictError("User with this email already exists",
                                     "User", "email")), store, counter)
    ELSE LET id == String(counter)
             user == User(id, userData.name, userData.email, now, now)
         IN  Effect(Ok(user), Set(store, id, user), counter + 1)

\* userData.email && userData.email !== user.email
ChangesEmail(user, userData) ==
    /\ "email" \in DOMAIN userData
    /\ userData.email.v # <<>>
    /\ userData.email # user.email

\* An update whose spread lets userData overwrite every field.
updateSpreadLast(store, counter, id, userData, now) ==
    IF id \notin DOMAIN store
    THEN Effect(Throw(NotFoundError("User", id)), store, counter)
    ELSE LET user == store[id]
             updatedUser ==
                 [f \in UserFields |->
                     IF f \in DOMAIN userData THEN userData[f]
                     ELSE IF f = "updatedAt" THEN now
                     ELSE user[f]]
         IN  Effect(Ok(updatedUser), Set(store, id, updatedUser), counter)

\* MemoryUserRepository.update
update(store, counter, id, userData, now) ==
    IF id \notin DOMAIN store
    THEN Effect(Throw(NotFoundError("User", id)), store, counter)
    ELSE LET user == store[id]
         IN  IF /\ ChangesEmail(user, userData)
                /\ \E k \in DOMAIN store :
                      store[k].email = userData.email /\ store[k].id # id
             THEN Effect(Throw(ConflictError(
                              "User with this email already exists",
                              "User", "email")), store, counter)
             ELSE LET updatedUser ==
                          [f \in UserFields |->
                              CASE f = "id" -> user.id
                                [] f = "createdAt" -> user.createdAt
                                [] f = "updatedAt" -> now
                                [] OTHER -> IF f \in DOMAIN userData
                                            THEN userData[f] ELSE user[f]]
                  IN  Effect(Ok(updatedUser), Set(store, id, updatedUser),
                              counter)

\* A delete that hands the id of the deleted user back to the counter.
deleteRewinding(store, counter, id) ==
    Effect(Ok(id \in DOMAIN store),
            [k \in DOMAIN store \ {id} |-> store[k]],
            IF id \in DOMAIN store THEN counter - 1 ELSE counter)

\* MemoryUserRepository.delete: users.delete(id)
delete(store, counter, id) ==
    Effect(Ok(id \in DOMAIN store),
            [k \in DOMAIN store \ {id} |-> store[k]], counter)

\* A findById that takes the user out of the map.
findByIdAndForget(store, counter, id) ==
    Effect(IF id \in DOMAIN store THEN Ok(store[id])
            ELSE Throw(NotFoundError("User", id)),
            [k \in DOMAIN store \ {id} |-> store[k]], counter)

\* MemoryUserRepository.findById
findById(store, counter, id) ==
    Effect(IF id \in DOMAIN store THEN Ok(store[id])
            ELSE Throw(NotFoundError("User", id)),
            store, counter)

\* The UserResponseDto both use cases return.
UserResponseDto(user) ==
    [id |-> user.id, name |-> user.name, email |-> user.email,
     createdAt |-> toISOString(user.createdAt),
     updatedAt |-> toISOString(user.updatedAt)]

\* CreateUserUseCase.execute: repository.create, then the DTO of the user it
\* returned; the repository's error passes through.
CreateUserUseCase(store, counter, dto, now) ==
    LET effect == create(store, counter,
                         [name |-> dto.name, email |-> dto.email], now)
    IN  Effect(IF effect.result.ok
               THEN Ok(UserResponseDto(effect.result.value))
               ELSE effect.result,
               effect.users, effect.idCounter)

\* GetUserUseCase.execute: repository.findById, then the DTO of the user it
\* returned (findById throws for an absent id, so the use case's own check
\* never sees one).
GetUserUseCase(store, counter, id) ==
    LET effect == findById(store, counter, id)
    IN  Effect(IF effect.result.ok
               THEN Ok(UserResponseDto(effect.result.value))
               ELSE effect.result,
               effect.users, effect.idCounter)

\* ------------------------------------------------- handler implementations
RECURSIVE text(_)
text(chars) == IF chars = <<>> THEN "" ELSE Head(chars) \o text(Tail(chars))

\* message.toLowerCase().includes(needle) over the messages that can occur.
Includes(message, needle) ==
    \/ <<message, needle>> \in
          {<<"User with this email already exists", "already exists">>,
           <<"User with this email already exists", "email">>}
    \/ /\ needle \in {"not found", "id"}
       /\ \E n \in DOMAIN Digits :
             message = "User with identifier " \o Digits[n] \o " not found"

\* JsonBodyParser.parse: every failure of request.json() becomes an
\* InvalidRequestError.
parse(req, used) ==
    LET r == json(req, used)
    IN  IF r.ok THEN r
        ELSE IF r.error.class = "SyntaxError"
        THEN Throw(InvalidRequestError("Invalid JSON in request body",
                                       [originalError |-> r.error.message]))
        ELSE Throw(InvalidRequestError("Failed to parse request body",
                                       [originalError |-> r.error.message]))

\* What a handler's call resolves to: a response or a thrown error, with the
\* body reads and log entries it made.
Handled(result, events, entries, used) ==
    [result |-> result, events |-> events, entries |-> entries, used |-> used]

\* The same, with what the call did to the user store.
WithEffect(h, op, effect) ==
    [result |-> h.result, events |-> h.events, entries |-> h.entries,
     used |-> h.used, op |-> op, effect |-> effect]

\* RouteNotFoundHandler.handle
RouteNotFoundHandle(req, used, t) ==
    Handled(Ok(Response(404,
                [error |-> "Not Found",
                 message |-> "No route found for " \o text(req.method) \o " "
                                \o pathString(req.path),
                 timestamp |-> toISOString(t)])),
            <<>>, <<LogEntry("warn", "Route not found")>>, used)

\* HealthRequestHandler.handle: no try/catch around the use case.
HealthHandle(used, outcome, t) ==
    Handled(IF outcome = "ok"
            THEN Ok(Response(200, [status |-> "healthy",
                                   timestamp |-> toISOString(t)]))
            ELSE Throw(PlainError("Health check failed")),
            <<>>, <<>>, used)

\* CreateUserRequestHandler.getErrorStatusCode
CreateUserErrorStatusCode(error) ==
    IF error.class \in {"SchemaValidationError", "InvalidRequestError"} THEN 400
    ELSE IF Includes(error.message, "required") \/ Includes(error.message, "invalid")
    THEN 400
    ELSE IF Includes(error.message, "already exists")
            \/ Includes(error.message, "duplicate")
    THEN 409
    ELSE 500

\* CreateUserRequestHandler.getErrorCode
CreateUserErrorCode(error) ==
    IF Includes(error.message, "name") THEN "INVALID_NAME"
    ELSE IF Includes(error.message, "email") THEN "INVALID_EMAIL"
    ELSE IF Includes(error.message, "json") THEN "INVALID_JSON"
    ELSE "CREATE_USER_ERROR"

\* CreateUserRequestHandler.formatErrorResponse (error.fieldErrors is not a
\* property of the ApplicationError-based SchemaValidationError, so no details
\* are serialized).
formatErrorResponse(error) ==
    IF error.class \in {"SchemaValidationError", "InvalidRequestError"}
    THEN [code |-> error.code, message |-> error.message]
    ELSE [code |-> CreateUserErrorCode(error), message |-> error.message]

\* CreateUserRequestHandler.handle: parses the body itself, validates it,
\* runs the use case, and answers every error from its own catch block.
CreateUserHandle(req, used, store, counter, t) ==
    LET rawBody == parse(req, used)
        dto == IF rawBody.ok THEN validate(rawBody.value, CreateUserSchema)
               ELSE rawBody
        effect ==
            IF ~dto.ok THEN Effect(dto, store, counter)
            ELSE create(store, counter,
                        [name |-> dto.value.v.name, email |-> dto.value.v.email],
                        t)
        created == effect.result
    IN  WithEffect(
            Handled(IF created.ok
                    THEN Ok(Response(201, UserResponseDto(created.value)))
                    ELSE Ok(Response(CreateUserErrorStatusCode(created.error),
                                     [error |-> formatErrorResponse(created.error),
                                      timestamp |-> toISOString(t)])),
                    <<Ev("readBody", "handler", rawBody.ok)>>, <<>>, TRUE),
            IF dto.ok THEN "create" ELSE "none", effect)

\* GetUserRequestHandler.handle with its own catch block.
GetUserErrorStatusCode(error) ==
    IF Includes(error.message, "not found") \/ Includes(error.message, "id")
    THEN 404
    ELSE IF Includes(error.message, "required")
            \/ Includes(error.message, "invalid")
    THEN 400
    ELSE 500

GetUserErrorCode(error) ==
    IF Includes(error.message, "not found") THEN "USER_NOT_FOUND"
    ELSE IF Includes(error.message, "id") THEN "INVALID_USER_ID"
    ELSE "GET_USER_ERROR"

GetUserHandle(data, used, store, counter, t) ==
    LET effect == findById(store, counter, text(data.params.v.id.v))
        user == effect.result
    IN  WithEffect(
            Handled(IF user.ok
                    THEN Ok(Response(200, UserResponseDto(user.value)))
                    ELSE Ok(Response(GetUserErrorStatusCode(user.error),
                                [error |-> [code |-> GetUserErrorCode(user.error),
                                            message |-> user.error.message],
                                 timestamp |-> toISOString(t)])),
                    <<>>, <<>>, used),
            "find", effect)

\* Any other IRequestHandler: answers with what it was given, or throws.
PlainHandle(data, used, outcome) ==
    Handled(CASE outcome = "ok" -> Ok(Response(200, [data |-> data]))
              [] outcome = "NotFoundError" -> Throw(NotFoundError("User", "1"))
              [] outcome = "ConflictError" ->
                    Throw(ConflictError("User with this email already exists",
                                        "User", "email"))
              [] outcome = "InvalidConfigError" ->
                    Throw(InvalidConfigError("port", "must be a number"))
              [] outcome = "UnauthorizedError" ->
                    Throw(UnauthorizedError("Authentication required"))
              [] outcome = "ForbiddenError" ->
                    Throw(ForbiddenError("Insufficient permissions"))
              [] outcome = "RouteNotFoundError" ->
                    Throw(RouteNotFoundError("/users"))
              [] outcome = "ZodError" ->
                    Throw([class |-> "ZodError", message |-> "Invalid input",
                           issues |-> <<Issue(<<"id">>, "Invalid input")>>])
              [] OTHER -> Throw(PlainError("Unexpected failure")),
            <<>>, <<>>, used)

Outcomes(name) ==
    CASE name = "RouteNotFoundHandler" -> {"ok"}
      [] name = "HealthRequestHandler" -> {"ok", "Error"}
      [] name = "CreateUserRequestHandler" -> {"ok"}
      [] name = "GetUserRequestHandler" -> {"ok"}
      [] name = "RegisterRequestHandler" -> {"ok", "ConflictError"}
      [] OTHER -> {"ok", "Error", "NotFoundError", "ConflictError",
                   "InvalidConfigError", "UnauthorizedError", "ForbiddenError",
                   "RouteNotFoundError", "ZodError"}

\* handler.handle(request, {params, query, body})
handle(name, req, data, used, outcome, t, store, counter) ==
    LET untouched == Effect(Ok(Null), store, counter)
    IN  CASE name = "RouteNotFoundHandler" ->
                WithEffect(RouteNotFoundHandle(req, used, t), "none", untouched)
          [] name = "HealthRequestHandler" ->
                WithEffect(HealthHandle(used, outcome, t), "none", untouched)
          [] name = "CreateUserRequestHandler" ->
                CreateUserHandle(req, used, store, counter, t)
          [] name = "GetUserRequestHandler" ->
                GetUserHandle(data, used, store, counter, t)
          [] OTHER -> WithEffect(PlainHandle(data, used, outcome), "none",
                                 untouched)

\* ------------------------------------------------------------------ ledger
\* ids in the order successful creates assigned them, ids deleted, and for
\* each stored id the times it was created and last written.
NoLedger == [created |-> <<>>, removed |-> {}, born |-> <<>>, stamped |-> <<>>]

Without(f, id) == [k \in DOMAIN f \ {id} |-> f[k]]

Record(l, op, id, effect, t) ==
    IF ~effect.result.ok THEN l
    ELSE CASE op = "create" ->
                  LET new == effect.result.value.id
                  IN  [created |-> Append(l.created, new),
                       removed |-> l.removed \ {new},
                       born |-> Set(l.born, new, t),
                       stamped |-> Set(l.stamped, new, t)]
           [] op = "update" -> [l EXCEPT !.stamped = Set(@, id, t)]
           [] op = "delete" ->
                  IF effect.result.value
                  THEN [l EXCEPT !.removed = @ \cup {id},
                                 !.born = Without(@, id),
                                 !.stamped = Without(@, id)]
                  ELSE l
           [] OTHER -> l

\* The repository method has run: the store is what it left behind.
Commit(op, id, effect, t) ==
    /\ users' = effect.users
    /\ idCounter' = effect.idCounter
    /\ ledger' = Record(ledger, op, id, effect, t)

\* ----------------------------------------------------------------- journal
\* A call made to a use case or to the repository: what it was given, what it
\* answered, and the store it found.
Call(op, id, input, result, store, counter) ==
    [op |-> op, id |-> id, input |-> input, result |-> result,
     before |-> [users |-> store, idCounter |-> counter]]

NoCall == [op |-> "none"]

\* The id a call was about: the one it was given, or the one create assigned.
Subject(call) ==
    IF call.op = "none" THEN ""
    ELSE IF call.op = "create"
    THEN (IF call.result.ok THEN call.result.value.id ELSE "")
    ELSE call.id

Brief(call) ==
    [op |-> call.op, id |-> Subject(call), input |-> call.input,
     result |-> call.result]

\* The journal keeps the last call, and the call before it when the last one
\* is a fetch of the id that call created, deleted or fetched.
NoJournal == [last |-> NoCall, prev |-> NoCall]

Note(j, call) ==
    [last |-> call,
     prev |-> IF /\ call.op = "find"
                 /\ j.last.op # "update"
                 /\ Subject(j.last) = call.id
              THEN Brief(j.last)
              ELSE NoCall]

Callers == 1 .. MaxCallers

Idle == [pc |-> "idle", result |-> Ok(Null)]

\* The e-mail address a request asks to create a user with, lower-cased, when
\* it is a POST /users whose body CreateUserSchema accepts.
CreateAttempt(req) ==
    IF /\ toUpperCase(req.method) = POST
       /\ req.path = <<"users">>
       /\ IncludesJson(req.contentType)
       /\ req.body.parseable
       /\ safeParse(CreateUserSchema, req.body.json).issues = <<>>
    THEN {safeParse(CreateUserSchema, req.body.json).value.v.email}
    ELSE {}

\* ---------------------------------------------------------------- lifecycle
\* AppBootstrapService with the server it was given and the process it runs
\* in: whether the signal listeners are installed, the service's two fields,
\* the server, the exit status of the process, how many shutdowns have been
\* asked for, and the calls made so far, in order.
Constructed ==
    [listening |-> FALSE, isShuttingDown |-> FALSE, forceExitTimeout |-> "unset",
     server |-> "none", exit |-> [done |-> FALSE], asked |-> 0, log |-> <<>>]

Logged(b, entry) == [b EXCEPT !.log = Append(@, entry)]

\* process.exit(code): nothing of the process runs after it.
exit(b, code) ==
    IF b.exit.done THEN b ELSE [b EXCEPT !.exit = [done |-> TRUE, code |-> code]]

\* What server.stop() and server.start() can do.
StopOutcomes == {"returns", "throws"}
StartOutcomes == {"listens", "throws"}

\* BunServer.stop: the server, if there is one, is stopped and forgotten, and
\* the start promise is rejected; a throw leaves the method on the way.
stop(b, outcome) ==
    IF outcome = "throws" THEN Logged(b, "stop threw")
    ELSE Logged([b EXCEPT !.server = IF @ = "serving" THEN "stopped" ELSE @],
                "stop returned")

\* AppBootstrapService.setupForceExit: any earlier timer is cleared, a new one
\* is set.
setupForceExit(b) == Logged([b EXCEPT !.forceExitTimeout = "armed"], "setTimeout")

\* AppBootstrapService.setupGracefulShutdown
setupGracefulShutdown(b) == [b EXCEPT !.listening = TRUE]

\* AppBootstrapService.start, and main's catch when it rejects.
start(b, outcome) ==
    IF outcome = "listens"
    THEN [setupGracefulShutdown(b) EXCEPT !.server = "serving"]
    ELSE exit(setupGracefulShutdown(b), 1)

\* A shutdown that neither looks at isShuttingDown nor exits itself: it leaves
\* the exit to the force-exit timer.
shutdownUnguarded(b, outcome) ==
    stop(setupForceExit([b EXCEPT !.isShuttingDown = TRUE]), outcome)

\* A shutdown that stops the server before it arms the force-exit timer.
shutdownStopFirst(b, outcome) ==
    IF b.isShuttingDown THEN Logged(b, "already in progress")
    ELSE LET stopped == stop([b EXCEPT !.isShuttingDown = TRUE], outcome)
         IN  exit(setupForceExit(stopped), IF outcome = "throws" THEN 1 ELSE 0)

\* AppBootstrapService.shutdown: no await inside, so a call runs to its end,
\* which is process.exit, in one step.
shutdown(b, outcome) ==
    IF b.isShuttingDown THEN Logged(b, "already in progress")
    ELSE LET armed == setupForceExit([b EXCEPT !.isShuttingDown = TRUE])
             stopped == stop(armed, outcome)
         IN  IF outcome = "throws" THEN exit(stopped, 1) ELSE exit(stopped, 0)

\* The process with the server listening, as every request above finds it.
Serving == start(Constructed, "listens")

\* ------------------------------------------------------------------ actions
Init ==
    /\ handlers \in {hs \in Registries(MaxHandlers) : NoRepeat(hs)}
    /\ nodeEnv \in NodeEnvs
    /\ pc = "idle"
    /\ request = NoRequest
    /\ found = NotFoundMatch
    /\ validated = NoData
    /\ bodyUsed = FALSE
    /\ trace = <<>>
    /\ logs = <<>>
    /\ response = NoResponse
    /\ users = <<>>
    /\ idCounter = 1
    /\ calls = [p \in Callers |-> Idle]
    /\ ledger = NoLedger
    /\ attempts = {}
    /\ journal = NoJournal
    /\ bootstrap = Serving
    /\ signals = <<>>

\* HttpRouter.handle up to its first await: find the handler, validate the
\* path parameters and the query; a failure goes to the catch block.
Receive(req) ==
    /\ pc = "idle"
    /\ request' = req
    /\ bodyUsed' = FALSE
    /\ LET f == findHandler(handlers, req.path, req.method)
           v == validateParamsAndQuery(HandlerDef(f.handler), f.params, req)
       IN  /\ found' = f
           /\ validated' = v.data
           /\ IF v.result.ok
              THEN /\ trace' = trace \o v.events
                   /\ pc' = "body"
                   /\ UNCHANGED <<logs, response>>
              ELSE Catch(req, v.result.error, RouterFrames, v.events, <<>>)
    /\ UNCHANGED <<handlers, nodeEnv, storeVars, calls, attempts, journal,
                   lifeVars>>

\* await this.validateRequestBody(request, handler.bodySchema)
ReadBody ==
    /\ pc = "body"
    /\ LET b == validateRequestBody(HandlerDef(found.handler), request, bodyUsed)
       IN  /\ bodyUsed' = b.used
           /\ IF b.result.ok
              THEN /\ validated' = [validated EXCEPT !.body = b.result.value]
                   /\ trace' = trace \o b.events
                   /\ pc' = "exec"
                   /\ UNCHANGED <<logs, response>>
              ELSE /\ Catch(request, b.result.error, RouterFrames, b.events, <<>>)
                   /\ UNCHANGED validated
    /\ UNCHANGED <<handlers, nodeEnv, request, found, storeVars, calls, attempts,
                   journal, lifeVars>>

\* The call of handler.handle as the trace keeps it: the handler, whether it
\* returned, and the response it returned.
HandleEv(name, result) ==
    [ev |-> "handle", part |-> name, ok |-> result.ok,
     returned |-> IF result.ok THEN result.value ELSE NoResponse]

\* An Execute that answers 200 with the body of the handler's response.
ExecuteRewrapping ==
    /\ pc = "exec"
    /\ \E outcome \in Outcomes(found.handler), t \in Clock :
          LET h == handle(found.handler, request, validated, bodyUsed, outcome, t,
                          users, idCounter)
              call == <<HandleEv(found.handler, h.result)>>
          IN  /\ bodyUsed' = h.used
              /\ Commit(h.op, "", h.effect, t)
              /\ IF h.result.ok
                 THEN /\ response' = Response(200, h.result.value.body)
                      /\ trace' = trace \o call \o h.events
                      /\ logs' = logs \o h.entries
                      /\ pc' = "done"
                 ELSE Catch(request, h.result.error,
                            <<found.handler, "HttpRouter">>,
                            call \o h.events, h.entries)
    /\ UNCHANGED <<handlers, nodeEnv, request, found, validated, calls, attempts,
                   journal, lifeVars>>

\* await handler.handle(request, {params, query, body}); the response is
\* returned as it is, a thrown error goes to the catch block.
Execute ==
    /\ pc = "exec"
    /\ \E outcome \in Outcomes(found.handler), t \in Clock :
          LET h == handle(found.handler, request, validated, bodyUsed, outcome, t,
                          users, idCounter)
              call == <<HandleEv(found.handler, h.result)>>
          IN  /\ bodyUsed' = h.used
              /\ Commit(h.op, "", h.effect, t)
              /\ IF h.result.ok
                 THEN /\ response' = h.result.value
                      /\ trace' = trace \o call \o h.events
                      /\ logs' = logs \o h.entries
                      /\ pc' = "done"
                 ELSE Catch(request, h.result.error,
                            <<found.handler, "HttpRouter">>,
                            call \o h.events, h.entries)
    /\ UNCHANGED <<handlers, nodeEnv, request, found, validated, calls, attempts,
                   journal, lifeVars>>

\* The response has been sent; the router is ready for the next request.
Complete ==
    /\ pc = "done"
    /\ pc' = "idle"
    /\ request' = NoRequest
    /\ found' = NotFoundMatch
    /\ validated' = NoData
    /\ bodyUsed' = FALSE
    /\ trace' = <<>>
    /\ logs' = <<>>
    /\ response' = NoResponse
    /\ attempts' = IF found.handler = CreateUserRequestHandler.name
                   THEN attempts \cup CreateAttempt(request)
                   ELSE attempts
    /\ UNCHANGED <<handlers, nodeEnv, storeVars, calls, journal, lifeVars>>

Next ==
    \/ \E req \in Requests : Receive(req)
    \/ ReadBody
    \/ Execute
    \/ Complete

Spec == Init /\ [][Next]_vars

\* ------------------------------------------------- the user store on its own
\* What callers hand to CreateUserUseCase.execute: bodies CreateUserSchema
\* has accepted and normalized.
RawUsers ==
    {ValidUser,
     Obj([name |-> Str(<<"A", "l">>),
          email |-> Str(<<"a", "@", "b", ".", "i", "o">>)]),
     Obj([name |-> Str(<<"A", "l">>),
          email |-> Str(<<"e", "@", "b", ".", "i", "o">>)])}

CreateUserInputs ==
    {validate(raw, CreateUserSchema).value.v :
        raw \in {r \in RawUsers : validate(r, CreateUserSchema).ok}}

\* Partial<User> values handed to update.
UpdateInputs ==
    {[name |-> Str(<<"B", "o">>)]}
    \cup {[email |-> dto.email] : dto \in CreateUserInputs}
    \cup {[id |-> "9", createdAt |-> MaxClock + 1, updatedAt |-> MaxClock + 1]}

UserIds == {String(n) : n \in 1 .. MaxUsers}

RepoInit ==
    /\ handlers = <<>>
    /\ nodeEnv = "production"
    /\ pc = "idle"
    /\ request = NoRequest
    /\ found = NotFoundMatch
    /\ validated = NoData
    /\ bodyUsed = FALSE
    /\ trace = <<>>
    /\ logs = <<>>
    /\ response = NoResponse
    /\ users = <<>>
    /\ idCounter = 1
    /\ calls = [p \in Callers |-> Idle]
    /\ ledger = NoLedger
    /\ attempts = {}
    /\ journal = NoJournal
    /\ bootstrap = Serving
    /\ signals = <<>>

\* CreateUserUseCase.execute up to its await: repository.create has run.  A
\* new call takes the first free slot, and keeps the id of the user it was
\* given, or the error.
CallCreate(p, dto, t) ==
    /\ calls[p].pc = "idle"
    /\ \A q \in Callers : q < p => calls[q].pc # "idle"
    /\ idCounter <= MaxUsers
    /\ LET effect == create(users, idCounter,
                            [name |-> dto.name, email |-> dto.email], t)
       IN  /\ Commit("create", "", effect, t)
           /\ calls' = [calls EXCEPT ![p] =
                         [pc |-> "awaiting",
                          result |-> IF effect.result.ok
                                     THEN Ok([id |-> effect.result.value.id])
                                     ELSE effect.result]]
    /\ UNCHANGED <<routerVars, journal, lifeVars>>

\* The rest of CreateUserUseCase.execute: the DTO is returned, or the
\* repository's error leaves the use case as it is.
Resume(p) ==
    /\ calls[p].pc = "awaiting"
    /\ calls' = [calls EXCEPT ![p] = Idle]
    /\ UNCHANGED <<routerVars, storeVars, journal, lifeVars>>

\* repository.update(id, userData)
Update(id, userData, t) ==
    /\ Commit("update", id, update(users, idCounter, id, userData, t), t)
    /\ UNCHANGED <<routerVars, calls, journal, lifeVars>>

\* repository.delete(id)
Delete(id) ==
    /\ Commit("delete", id, delete(users, idCounter, id), 0)
    /\ UNCHANGED <<routerVars, calls, journal, lifeVars>>

\* What new Date() can yield: the clock does not run backwards between
\* writes.
Later == {t \in Clock : \A id \in DOMAIN users : t >= users[id].updatedAt}

RepoNext ==
    \/ \E p \in Callers, dto \in CreateUserInputs, t \in Later :
          CallCreate(p, dto, t)
    \/ \E p \in Callers : Resume(p)
    \/ \E id \in UserIds, userData \in UpdateInputs, t \in Later :
          Update(id, userData, t)
    \/ \E id \in UserIds : Delete(id)

RepoSpec == RepoInit /\ [][RepoNext]_vars

\* ------------------------------------- the use cases called one after another
\* Bodies as clients submit them, before CreateUserSchema has normalized them.
SubmittedUsers ==
    {ValidUser,
     Obj([name |-> Str(<<" ", "A", "l">>),
          email |-> Str(<<"b", "@", "b", ".", "i", "o">>)]),
     InvalidUser}

\* Partial<User> values handed to update: the addresses submitted.
AddressUpdates ==
    {[email |-> validate(raw, CreateUserSchema).value.v.email] :
        raw \in {r \in SubmittedUsers : validate(r, CreateUserSchema).ok}}

\* A caller validates the body and awaits CreateUserUseCase.execute; nothing
\* after the await reads the store, so the call is one step.
ExecuteCreateUser(raw, t) ==
    /\ validate(raw, CreateUserSchema).ok
    /\ idCounter <= MaxUsers
    /\ LET dto == validate(raw, CreateUserSchema).value.v
           effect == CreateUserUseCase(users, idCounter, dto, t)
       IN  /\ Commit("create", "", effect, t)
           /\ journal' = Note(journal, Call("create", "", raw, effect.result,
                                            users, idCounter))
    /\ UNCHANGED <<routerVars, calls, lifeVars>>

\* await GetUserUseCase.execute(id)
ExecuteGetUser(id) ==
    /\ LET effect == GetUserUseCase(users, idCounter, id)
       IN  /\ Commit("find", id, effect, 0)
           /\ journal' = Note(journal, Call("find", id, Null, effect.result,
                                            users, idCounter))
    /\ UNCHANGED <<routerVars, calls, lifeVars>>

\* await repository.update(id, userData)
RepositoryUpdate(id, userData, t) ==
    /\ LET effect == update(users, idCounter, id, userData, t)
       IN  /\ Commit("update", id, effect, t)
           /\ journal' = Note(journal, Call("update", id, userData, effect.result,
                                            users, idCounter))
    /\ UNCHANGED <<routerVars, calls, lifeVars>>

\* await repository.delete(id)
RepositoryDelete(id) ==
    /\ LET effect == delete(users, idCounter, id)
       IN  /\ Commit("delete", id, effect, 0)
           /\ journal' = Note(journal, Call("delete", id, Null, effect.result,
                                            users, idCounter))
    /\ UNCHANGED <<routerVars, calls, lifeVars>>

StoreNext ==
    \/ \E raw \in SubmittedUsers, t \in Later : ExecuteCreateUser(raw, t)
    \/ \E id \in UserIds : ExecuteGetUser(id)
    \/ \E id \in UserIds, userData \in AddressUpdates, t \in Later :
          RepositoryUpdate(id, userData, t)
    \/ \E id \in UserIds : RepositoryDelete(id)

StoreSpec == RepoInit /\ [][StoreNext]_vars

\* ----------------------------------------------- the application as started
ValidRegistration ==
    Obj([user |-> ValidUser,
         contact |-> Str(<<"a", "@", "b", ".", "i", "o">>)])

InvalidRegistration ==
    Obj([user |-> InvalidUser, contact |-> Str(<<"a", "b">>)])

AppRequests ==
    {[method |-> POST, path |-> <<"users">>, query |-> Obj(<<>>),
      contentType |-> "application/json", body |-> Body(TRUE, sent)] :
        sent \in {ValidRegistration, InvalidRegistration, InvalidUser}}
    \cup {[method |-> GET, path |-> <<"health">>, query |-> Obj(<<>>),
           contentType |-> "none", body |-> NoBody]}

Signals == {"SIGTERM", "SIGINT"}

Alive == ~bootstrap.exit.done

AppInit ==
    /\ handlers \in {<<RegisterRequestHandler.name>>,
                     <<HealthRequestHandler.name, RegisterRequestHandler.name>>}
    /\ nodeEnv \in NodeEnvs
    /\ pc = "idle"
    /\ request = NoRequest
    /\ found = NotFoundMatch
    /\ validated = NoData
    /\ bodyUsed = FALSE
    /\ trace = <<>>
    /\ logs = <<>>
    /\ response = NoResponse
    /\ users = <<>>
    /\ idCounter = 1
    /\ calls = [p \in Callers |-> Idle]
    /\ ledger = NoLedger
    /\ attempts = {}
    /\ journal = NoJournal
    /\ bootstrap = Constructed
    /\ signals = <<>>

\* main: await bootstrap.start(), up to the await inside server.start().
Start(outcome) ==
    /\ bootstrap = Constructed
    /\ bootstrap' = start(bootstrap, outcome)
    /\ UNCHANGED <<routerVars, storeVars, calls, journal, signals>>

\* The operating system delivers a signal; its listener runs in a later turn.
Deliver(signal) ==
    /\ Alive
    /\ bootstrap.listening
    /\ bootstrap.asked < MaxSignals
    /\ signals' = Append(signals, signal)
    /\ bootstrap' = [bootstrap EXCEPT !.asked = @ + 1]
    /\ UNCHANGED <<routerVars, storeVars, calls, journal>>

\* The listener installed by setupGracefulShutdown: this.shutdown().
Listener(outcome) ==
    /\ Alive
    /\ signals # <<>>
    /\ signals' = Tail(signals)
    /\ bootstrap' = shutdown(bootstrap, outcome)
    /\ UNCHANGED <<routerVars, storeVars, calls, journal>>

\* bootstrap.shutdown() called directly once the application has started.
DirectShutdown(outcome) ==
    /\ Alive
    /\ bootstrap.listening
    /\ bootstrap.asked < MaxSignals
    /\ bootstrap' = shutdown([bootstrap EXCEPT !.asked = @ + 1], outcome)
    /\ UNCHANGED <<routerVars, storeVars, calls, journal, signals>>

\* BunServer.requestHandler: requests reach the router while the server is
\* listening, and a request in progress goes on while the process lives.
Serve(req) == Alive /\ bootstrap.server = "serving" /\ Receive(req)

Continue == Alive /\ (ReadBody \/ Execute \/ Complete)

AppNext ==
    \/ \E outcome \in StartOutcomes : Start(outcome)
    \/ \E signal \in Signals : Deliver(signal)
    \/ \E outcome \in StopOutcomes : Listener(outcome)
    \/ \E outcome \in StopOutcomes : DirectShutdown(outcome)
    \/ \E req \in AppRequests : Serve(req)
    \/ Continue

\* The event loop runs the listener of a delivered signal.
AppSpec ==
    /\ AppInit
    /\ [][AppNext]_vars
    /\ WF_vars(\E outcome \in StopOutcomes : Listener(outcome))


\* ================================================================ properties
Registered(i) == HandlerDef(handlers[i])

PathMatches(i, pathname) == match(Registered(i).pathname, pathname).matched

Normalized == toUpperCase(request.method)

\* Registered handlers whose pattern matches the request path / and whose
\* method is the request's.
PathOnly == {i \in DOMAIN handlers : PathMatches(i, request.path)}
Exact == {i \in PathOnly : Registered(i).method = Normalized}

EventsOf(ev) == {i \in DOMAIN trace : trace[i].ev = ev}

\* Steps of Router.handle's try block that threw (a read of the body made and
\* caught inside a handler is not one of them).
Failures ==
    {i \in DOMAIN trace :
        /\ trace[i].ev \in {"validate", "readBody", "handle"}
        /\ trace[i].part # "handler"
        /\ ~trace[i].ok}

InFlight == pc # "idle"

\* C1: two registered handlers with the same path pattern and different
\* methods both resolve: for each of them, findHandler on a path matching the
\* pattern and on its method returns that handler, whichever was registered
\* first.  The registry never changes, so it is examined while the router is
\* idle.
C1_SiblingMethodsResolve ==
    \A i, j \in DOMAIN handlers :
        (/\ pc = "idle"
         /\ i # j
         /\ Registered(i).pathname = Registered(j).pathname
         /\ Registered(i).method # Registered(j).method)
        => \A p \in RequestPaths :
              PathMatches(i, p)
              => findHandler(handlers, p, Registered(i).method).handler
                    = handlers[i]

\* A request resolved to the later-registered of two handlers sharing a path.
C1_Witness ==
    /\ InFlight
    /\ \E i, j \in DOMAIN handlers :
          /\ i < j
          /\ Registered(i).pathname = Registered(j).pathname
          /\ Registered(i).method # Registered(j).method
          /\ PathMatches(j, request.path)
          /\ found.handler = handlers[j]

\* C2: a request whose path and method match a registered route resolves to
\* a registered handler with a matching pattern and that method; a request
\* whose path matches only routes of other methods never runs a registered
\* handler and is answered 404.
C2_MethodNeverCrossed ==
    InFlight =>
        /\ Exact # {} => \E i \in Exact : found.handler = handlers[i]
        /\ (PathOnly # {} /\ Exact = {}) =>
              /\ \A k \in EventsOf("handle") : trace[k].part \notin HandlerNames
              /\ pc = "done" => response.status = 404

\* A finished request whose path matched only handlers of other methods.
C2_Witness ==
    /\ pc = "done"
    /\ PathOnly # {}
    /\ Exact = {}
    /\ response.status = 404

\* C3: the method is compared case-insensitively: findHandler gives the same
\* handler and parameters for a method string and for its uppercase form, and
\* the handler found for a request is the one found for the uppercased method.
C3_MethodCaseInsensitive ==
    /\ pc = "idle" =>
          \A p \in RequestPaths, m \in RequestMethods :
              findHandler(handlers, p, m) = findHandler(handlers, p, toUpperCase(m))
    /\ InFlight => found = findHandler(handlers, request.path, Normalized)

\* A request sent with a lowercase method that resolved to a registered handler.
C3_Witness ==
    /\ InFlight
    /\ request.method # Normalized
    /\ found.handler \in HandlerNames

\* The standard error envelope {error: {code, message, details?}, timestamp,
\* requestId}.
HasEnvelope(body) ==
    /\ DOMAIN body = {"error", "timestamp", "requestId"}
    /\ {"code", "message"} \subseteq DOMAIN body.error
    /\ DOMAIN body.error \subseteq {"code", "message", "details"}

\* C4: when no registered route matches the request's path and method, the
\* router raises a route-not-found error that the error handler converts: the
\* request ends with one handleError call for a RouteNotFoundError and a 404
\* response in the standard envelope.
C4_RouteNotFoundThroughErrorHandler ==
    (pc = "done" /\ Exact = {}) =>
        /\ response.status = 404
        /\ \E k \in EventsOf("handleError") : trace[k].part = "RouteNotFoundError"
        /\ HasEnvelope(response.body)

Matched == HandlerDef(found.handler)
ParamsCheck == validatePart(found.params, Matched.paramsSchema)
QueryCheck == validatePart(request.query, Matched.querySchema)
Rank(part) == CASE part = "params" -> 1 [] part = "query" -> 2 [] OTHER -> 3
FieldErrorsSent == response.body.error.details.fieldErrors

\* C6: the parts of a request are validated in the order params, query, body;
\* once a part has failed nothing later is validated and the body is not read;
\* when several parts are invalid the response reports the earliest one.
C6_ValidationOrder ==
    /\ \A i, j \in EventsOf("validate") :
          i < j => /\ Rank(trace[i].part) < Rank(trace[j].part)
                   /\ trace[i].ok
    /\ \A i \in EventsOf("validate"), j \in EventsOf("readBody") :
          ~trace[i].ok => j < i
    /\ \A j \in EventsOf("readBody") :
          trace[j].part = "router" =>
              /\ \A i \in EventsOf("validate") :
                    trace[i].part \in {"params", "query"} => i < j
              /\ ParamsCheck.ok /\ QueryCheck.ok
    /\ (pc = "done" /\ ~ParamsCheck.ok) =>
          /\ FieldErrorsSent = ParamsCheck.error.details.fieldErrors
          /\ \A i \in EventsOf("validate") : trace[i].part = "params"
          /\ EventsOf("readBody") = {}
    /\ (pc = "done" /\ ParamsCheck.ok /\ ~QueryCheck.ok) =>
          /\ FieldErrorsSent = QueryCheck.error.details.fieldErrors
          /\ \A i \in EventsOf("validate") : trace[i].part \in {"params", "query"}
          /\ EventsOf("readBody") = {}

\* Params and query are invalid together and the params are reported.
C6_Witness ==
    /\ pc = "done"
    /\ Matched.paramsSchema # NoSchema /\ ~ParamsCheck.ok
    /\ Matched.querySchema # NoSchema /\ ~QueryCheck.ok
    /\ FieldErrorsSent = ParamsCheck.error.details.fieldErrors
    /\ FieldErrorsSent # QueryCheck.error.details.fieldErrors

\* C7: while one request is processed its body is read only if the matched
\* route declares a body schema, and at most once, counting the reads of the
\* router and of the matched handler together.
C7_BodyReadAtMostOnce ==
    /\ Cardinality(EventsOf("readBody")) <= 1
    /\ EventsOf("readBody") # {} => Matched.bodySchema # NoSchema

\* What reading and validating the body of the current request yields.
BodyRead == parseRequestBody(request, FALSE).result
BodyCheck ==
    IF Matched.bodySchema = NoSchema THEN Ok(Undefined)
    ELSE IF ~BodyRead.ok THEN BodyRead
    ELSE validate(BodyRead.value, Matched.bodySchema)

Declared ==
    {part \in {"params", "query", "body"} :
        CASE part = "params" -> Matched.paramsSchema # NoSchema
          [] part = "query" -> Matched.querySchema # NoSchema
          [] OTHER -> Matched.bodySchema # NoSchema}

FailedValidations == {i \in EventsOf("validate") : ~trace[i].ok}

\* C8: a handler is invoked only after every schema its route declares has
\* validated successfully, and it is given the validated values; when a
\* declared part fails validation the handler is never invoked and the
\* response is a 400 with per-field details.
C8_HandlerAfterValidation ==
    /\ (pc = "exec" \/ EventsOf("handle") # {}) =>
          /\ FailedValidations = {}
          /\ ParamsCheck.ok /\ QueryCheck.ok /\ BodyCheck.ok
          /\ validated = [params |-> ParamsCheck.value,
                          query |-> QueryCheck.value,
                          body |-> BodyCheck.value]
          /\ \A part \in Declared : \E i \in EventsOf("validate") :
                /\ trace[i].part = part /\ trace[i].ok
                /\ \A k \in EventsOf("handle") : i < k
    /\ (InFlight /\ ~(ParamsCheck.ok /\ QueryCheck.ok)) => EventsOf("handle") = {}
    /\ (pc \in {"exec", "done"} /\ ~BodyCheck.ok) => EventsOf("handle") = {}
    /\ FailedValidations # {} =>
          /\ EventsOf("handle") = {}
          /\ pc = "done"
          /\ response.status = 400
          /\ DOMAIN FieldErrorsSent # {}
          /\ \A f \in DOMAIN FieldErrorsSent : FieldErrorsSent[f] # <<>>

\* A handler with all three schemas declared ran on the validated values: the
\* e-mail address it was given is the lower-cased one.
C8_Witness ==
    /\ pc = "done"
    /\ Declared = {"params", "query", "body"}
    /\ \E k \in EventsOf("handle") : trace[k].ok
    /\ response.status = 200
    /\ response.body.data.body.v.email = Str(<<"a", "@", "b", ".", "i", "o">>)
    /\ BodyRead.value.v.email # response.body.data.body.v.email

\* C9: a validation failure of any request part is answered with status 400,
\* error code VALIDATION_ERROR and details.fieldErrors mapping each failing
\* field path to its messages.
C9_ValidationErrorCode ==
    (pc = "done" /\ FailedValidations # {}) =>
        /\ response.status = 400
        /\ response.body.error.code = "VALIDATION_ERROR"
        /\ DOMAIN FieldErrorsSent # {}

\* The body sent is not one the body schema accepts: it is not JSON text, it
\* is not announced as JSON, or a field of it is invalid.
Malformed(req, schema) ==
    \/ ~req.body.parseable
    \/ ~IncludesJson(req.contentType)
    \/ safeParse(schema, req.body.json).issues # <<>>

\* C10: every malformed body sent to a route that declares a body schema is
\* answered with status 400 and at least one fieldErrors entry per invalid
\* field.
C10_MalformedBodyIs400 ==
    (/\ pc = "done"
     /\ Matched.bodySchema # NoSchema
     /\ ParamsCheck.ok /\ QueryCheck.ok
     /\ Malformed(request, Matched.bodySchema)) =>
        /\ response.status = 400
        /\ "details" \in DOMAIN response.body.error
        /\ LET issues == safeParse(Matched.bodySchema,
                                   IF BodyRead.ok THEN BodyRead.value
                                   ELSE Undefined).issues
           IN  \A i \in DOMAIN issues :
                   join(issues[i].path) \in DOMAIN FieldErrorsSent

\* The request was answered with an error status.
IsErrorResponse == pc = "done" /\ response.status >= 400

IsISOString(s) == \E t \in Clock : s = toISOString(t)

\* C11: every error response, whatever its kind and whichever component
\* produced it, carries a non-empty requestId and an ISO-8601 timestamp.
C11_ErrorResponsesCarryRequestId ==
    IsErrorResponse =>
        /\ "requestId" \in DOMAIN response.body
        /\ response.body.requestId # ""
        /\ "timestamp" \in DOMAIN response.body
        /\ IsISOString(response.body.timestamp)

\* The status and code each application error class declares.
DeclaredStatusCodes ==
    {<<"NotFoundError", 404, "NOT_FOUND">>,
     <<"ConflictError", 409, "CONFLICT">>,
     <<"InvalidConfigError", 500, "INVALID_CONFIG">>,
     <<"UnauthorizedError", 401, "UNAUTHORIZED">>,
     <<"ForbiddenError", 403, "FORBIDDEN">>,
     <<"RouteNotFoundError", 404, "ROUTE_NOT_FOUND">>,
     <<"SchemaValidationError", 400, "SCHEMA_VALIDATION">>,
     <<"InvalidRequestError", 400, "INVALID_REQUEST">>}

\* The errors the error handler was given for the current request.
ErrorsHandled == {trace[k].error : k \in EventsOf("handleError")}
ApplicationErrorsHandled == {e \in ErrorsHandled : IsApplicationError(e)}
UnknownErrorsHandled ==
    {e \in ErrorsHandled : ~IsApplicationError(e) /\ e.class # "ZodError"}

\* C12: for every application error the error handler's response has the
\* error's declared status and code, and each class has one status and one
\* code: NotFoundError 404/NOT_FOUND, ConflictError 409/CONFLICT,
\* InvalidConfigError 500/INVALID_CONFIG, UnauthorizedError 401,
\* ForbiddenError 403, RouteNotFoundError 404.
C12_DeclaredStatusAndCode ==
    \A e \in ApplicationErrorsHandled :
        /\ response.status = e.statusCode
        /\ response.body.error.code = e.code
        /\ response.body.error.message = e.message
        /\ <<e.class, e.statusCode, e.code>> \in DeclaredStatusCodes
        /\ ("details" \in DOMAIN e) = ("details" \in DOMAIN response.body.error)

\* An error without details was answered with its own status and code.
C12_Witness ==
    /\ pc = "done"
    /\ \E e \in ApplicationErrorsHandled : e.class = "UnauthorizedError"
    /\ response.status = 401
    /\ response.body.error = [code |-> "UNAUTHORIZED",
                              message |-> "Authentication required"]

GenericMessage == "An unexpected error occurred. Please try again later."

\* C13: an error that is neither a validation error nor an application error
\* is answered with 500 and INTERNAL_SERVER_ERROR; the message is the generic
\* text in production and the error's own message in every other environment.
C13_UnknownErrorIs500 ==
    \A e \in UnknownErrorsHandled :
        /\ response.status = 500
        /\ response.body.error.code = "INTERNAL_SERVER_ERROR"
        /\ response.body.error.message =
              IF nodeEnv = "production" THEN GenericMessage ELSE e.message

\* Outside production, a handler's plain Error is answered with its message.
C13_Witness ==
    /\ pc = "done"
    /\ nodeEnv # "production"
    /\ \E e \in UnknownErrorsHandled : e.message = "Unexpected failure"
    /\ response.body.error.message = "Unexpected failure"

\* C14: in production no error response, of any kind, contains a stack trace.
C14_NoStackInProduction ==
    (IsErrorResponse /\ nodeEnv = "production") =>
        /\ "stack" \notin DOMAIN response.body
        /\ found.handler # RouteNotFoundHandler.name =>
              /\ "stack" \notin DOMAIN response.body.error
              /\ "details" \in DOMAIN response.body.error =>
                    "stack" \notin DOMAIN response.body.error.details

\* An unknown error was answered in production.
C14_Witness ==
    /\ pc = "done"
    /\ nodeEnv = "production"
    /\ UnknownErrorsHandled # {}
    /\ response.status = 500
    /\ response.body.error.message = GenericMessage

\* C15: handlers never catch the errors raised while they execute: each such
\* error reaches the router's catch block, which alone turns errors into
\* responses.
C15_HandlersNeverCatch ==
    pc = "done" =>
        /\ \A i \in DOMAIN trace :
              (trace[i].part = "handler" /\ ~trace[i].ok) =>
                  \E k \in EventsOf("handleError") : i < k
        /\ (response.status >= 400
            /\ \E i \in EventsOf("handle") : trace[i].part \in HandlerNames)
              => EventsOf("handleError") # {}

\* C16: creating two users whose e-mail addresses are equal ignoring case
\* yields 409 with code CONFLICT on the second attempt, and the second attempt
\* adds no user to the store.
C16_SecondCreateConflicts ==
    (/\ pc = "done"
     /\ found.handler = CreateUserRequestHandler.name
     /\ CreateAttempt(request) # {}
     /\ CreateAttempt(request) \subseteq attempts) =>
        /\ response.status = 409
        /\ response.body.error.code = "CONFLICT"
        /\ Cardinality({k \in DOMAIN users :
                           users[k].email \in CreateAttempt(request)}) = 1

\* C17: GET /users/:id for an id that is not in the store yields 404 with
\* code NOT_FOUND.
C17_AbsentUserIs404 ==
    (/\ pc = "done"
     /\ found.handler = GetUserRequestHandler.name
     /\ request.path[2] \notin DOMAIN users) =>
        /\ response.status = 404
        /\ response.body.error.code = "NOT_FOUND"

Range(f) == {f[k] : k \in DOMAIN f}

Awaiting == {p \in Callers : calls[p].pc = "awaiting" /\ calls[p].result.ok}

\* C18: concurrent createUser calls, however they interleave, lose no update
\* and never hand out an id twice: after n successful creates there have been
\* n distinct ids, every created user that was not deleted is in the store
\* under its own id, and the calls in progress hold different users.
C18_ConcurrentCreatesKeepIds ==
    /\ Cardinality(Range(ledger.created)) = Len(ledger.created)
    /\ DOMAIN users = Range(ledger.created) \ ledger.removed
    /\ \A id \in DOMAIN users : users[id].id = id
    /\ \A p, q \in Awaiting :
          p # q => calls[p].result.value.id # calls[q].result.value.id
    /\ \A p \in Awaiting :
          \E i \in DOMAIN ledger.created :
              ledger.created[i] = calls[p].result.value.id

\* Two calls are both between create and their return, each with a user of
\* its own, and both users are stored.
C18_Witness ==
    /\ Cardinality(Awaiting) = 2
    /\ Len(ledger.created) = 2
    /\ \A p \in Awaiting : calls[p].result.value.id \in DOMAIN users

IsLowerCase(chars) == toLowerCase(chars) = chars

\* C19: after any sequence of creates, updates and deletes no two stored users
\* have the same e-mail address, the addresses being lower-case.
C19_EmailsUnique ==
    /\ \A id, other \in DOMAIN users :
          id # other => users[id].email # users[other].email
    /\ \A id \in DOMAIN users : IsLowerCase(users[id].email.v)

\* A create was refused for its address while two users with different
\* addresses are stored.
C19_Witness ==
    /\ Cardinality(DOMAIN users) = 2
    /\ \E p \in Callers :
          /\ calls[p].pc = "awaiting"
          /\ ~calls[p].result.ok
          /\ calls[p].result.error.code = "CONFLICT"

\* C20: whatever an update carries, id and createdAt of a stored user stay as
\* assigned at creation, and updatedAt is the time of the last successful
\* write.
C20_UpdateKeepsIdentity ==
    /\ DOMAIN ledger.born = DOMAIN users
    /\ \A id \in DOMAIN users :
          /\ users[id].id = id
          /\ users[id].createdAt = ledger.born[id]
          /\ users[id].updatedAt = ledger.stamped[id]

\* A user has been updated after its creation.
C20_Witness ==
    \E id \in DOMAIN users :
        /\ users[id].updatedAt # users[id].createdAt
        /\ users[id].createdAt = ledger.born[id]
        /\ users[id].name = Str(<<"B", "o">>)
        /\ users[id].email = Str(<<"e", "@", "b", ".", "i", "o">>)

\* The last call and the one before it, by kind.
Last == journal.last
Prev == journal.prev
FetchedAfterCreate ==
    Last.op = "find" /\ Prev.op = "create" /\ Prev.result.ok

\* C21: a user created from a body the schema accepts and then fetched by the
\* id the create call returned comes back exactly as the create call returned
\* it: the same id, the name submitted with the whitespace around it removed,
\* and the e-mail address in lower case.
C21_RoundTrip ==
    FetchedAfterCreate =>
        /\ Last.result.ok
        /\ Last.result.value = Prev.result.value
        /\ Last.result.value.id = Last.id
        /\ Last.result.value.name = Str(trim(Prev.input.v.name.v))
        /\ Last.result.value.email = Str(toLowerCase(Prev.input.v.email.v))

\* C21 as stated: the name that comes back is the name as submitted.
C21_SubmittedNameReturned ==
    FetchedAfterCreate =>
        /\ Last.result.ok
        /\ Last.result.value = Prev.result.value
        /\ Last.result.value.id = Last.id
        /\ Last.result.value.name = Prev.input.v.name
        /\ Last.result.value.email = Str(toLowerCase(Prev.input.v.email.v))

\* A user submitted with an upper-case letter in the address was created and
\* fetched.
C21_Witness ==
    /\ FetchedAfterCreate
    /\ Prev.input = ValidUser
    /\ Last.result.ok
    /\ Last.result.value.email = Str(<<"a", "@", "b", ".", "i", "o">>)
    /\ Last.result.value.email # Prev.input.v.email

SameUserFields(a, b) ==
    /\ a.id = b.id
    /\ a.name = b.name
    /\ a.email = b.email
    /\ a.createdAt = b.createdAt

\* C22: fetching a user changes neither the stored users nor the id counter,
\* and two fetches of one id with no call between them give the same answer:
\* the same id, name, email and createdAt, or not-found both times.
C22_GetIsIdempotent ==
    Last.op = "find" =>
        /\ users = Last.before.users
        /\ idCounter = Last.before.idCounter
        /\ Prev.op = "find" =>
              /\ Last.result.ok = Prev.result.ok
              /\ Last.result.ok =>
                    SameUserFields(Last.result.value, Prev.result.value)

\* A stored user was fetched twice in a row.
C22_Witness ==
    /\ Last.op = "find" /\ Prev.op = "find"
    /\ Last.result.ok /\ Prev.result.ok
    /\ Last.id \in DOMAIN users

StoreAsFound == users = Last.before.users /\ idCounter = Last.before.idCounter

Refused == Last.op \in {"create", "update"} /\ ~Last.result.ok

\* The stored user another id holds the address under, if any.
HeldByOther(store, email, id) ==
    \E k \in DOMAIN store : store[k].email = email /\ k # id

\* C29: a repository call that fails leaves the stored users and the id
\* counter as it found them: update of an unknown id fails with not-found,
\* update to an address another user holds and create with an address already
\* held fail with conflict; updating a user to the address it already has
\* succeeds.
C29_FailedCallsChangeNothing ==
    /\ Refused => StoreAsFound
    /\ Last.op = "create" =>
          (Last.result.ok <=>
              ~HeldByOther(Last.before.users,
                           Str(toLowerCase(Last.input.v.email.v)), ""))
    /\ (Last.op = "create" /\ ~Last.result.ok) =>
          Last.result.error.code = "CONFLICT"
    /\ (Last.op = "update" /\ Last.id \notin DOMAIN Last.before.users) =>
          /\ ~Last.result.ok
          /\ Last.result.error.code = "NOT_FOUND"
    /\ (Last.op = "update" /\ Last.id \in DOMAIN Last.before.users) =>
          IF "email" \in DOMAIN Last.input
             /\ HeldByOther(Last.before.users, Last.input.email, Last.id)
          THEN ~Last.result.ok /\ Last.result.error.code = "CONFLICT"
          ELSE Last.result.ok

\* An update to an address another user holds was refused, both users being
\* stored as before.
C29_Witness ==
    /\ Last.op = "update"
    /\ ~Last.result.ok
    /\ Last.result.error.code = "CONFLICT"
    /\ Cardinality(DOMAIN users) = 2
    /\ StoreAsFound

RECURSIVE NumberOf(_, _)
NumberOf(id, n) == IF String(n) = id THEN n ELSE NumberOf(id, n + 1)

\* C30: delete(id) answers true exactly when the id was stored and removes
\* that user and nothing else; a fetch of the id right after it fails with
\* not-found; the id counter never goes down, a create takes the counter's
\* value as the new id and advances it by one, and no id is assigned twice.
C30_DeleteAndIdsNeverReused ==
    /\ Last.op = "delete" =>
          /\ Last.result.value = (Last.id \in DOMAIN Last.before.users)
          /\ DOMAIN users = DOMAIN Last.before.users \ {Last.id}
          /\ \A k \in DOMAIN users : users[k] = Last.before.users[k]
          /\ idCounter = Last.before.idCounter
    /\ (Last.op = "find" /\ Prev.op = "delete") =>
          /\ ~Last.result.ok
          /\ Last.result.error.code = "NOT_FOUND"
    /\ Last.op # "none" => idCounter >= Last.before.idCounter
    /\ (Last.op = "create" /\ Last.result.ok) =>
          /\ Last.result.value.id = String(Last.before.idCounter)
          /\ idCounter = Last.before.idCounter + 1
    /\ Cardinality(Range(ledger.created)) = Len(ledger.created)
    /\ \A i \in DOMAIN ledger.created :
          NumberOf(ledger.created[i], 0) < idCounter

\* A user was created after another had been deleted, under an id of its own.
C30_Witness ==
    /\ Last.op = "create" /\ Last.result.ok
    /\ ledger.removed # {}
    /\ Last.result.value.id \notin ledger.removed
    /\ Len(ledger.created) = 2

\* The entries the error handler writes.
ErrorHandlerEntries ==
    {i \in DOMAIN logs :
        logs[i].message \in {"Unexpected error occurred",
                             "Application error occurred",
                             "Client error occurred"}}

Returned == {k \in EventsOf("handle") : trace[k].ok}

\* C23: when the matched handler returns a response, Router.handle resolves
\* with exactly that response, and the error handler is not invoked: it
\* builds no response and writes no log entry.
C23_SuccessReturnsHandlerResponse ==
    /\ Returned # {} =>
          /\ pc = "done"
          /\ \A k \in Returned : response = trace[k].returned
          /\ EventsOf("handleError") = {}
          /\ ErrorHandlerEntries = {}
    /\ (pc = "done" /\ EventsOf("handleError") = {}) => Returned # {}

\* The route-not-found handler's own 404 was passed on as it was.
C23_Witness ==
    /\ pc = "done"
    /\ found.handler = RouteNotFoundHandler.name
    /\ \E k \in Returned : trace[k].returned.status = 404
    /\ response.status = 404
    /\ EventsOf("handleError") = {}

\* C24: the error handler writes exactly one log entry per error it handles,
\* at error severity when the response status is 500 or above and at warning
\* severity when it is 400-499.
C24_SeverityFollowsStatus ==
    /\ Cardinality(ErrorHandlerEntries) = Cardinality(EventsOf("handleError"))
    /\ Cardinality(ErrorHandlerEntries) <= 1
    /\ \A i \in ErrorHandlerEntries :
          logs[i].level = IF response.status >= 500 THEN "error" ELSE "warn"

Least(S) == CHOOSE i \in S : \A j \in S : i <= j

\* The path parameters a pattern captures from a path, as an object of
\* strings.
RawParams(pattern, pathname) ==
    LET m == match(pattern, pathname)
    IN  Obj([n \in DOMAIN m.params |-> Str(<<m.params[n]>>)])

\* C25: findHandler returns the earliest registered handler whose pattern
\* matches the path and whose method is the normalized request method,
\* together with the path parameters that handler's pattern captured; with no
\* such handler it returns the route-not-found handler and no parameters.
C25_EarliestMatchWithRawParams ==
    InFlight =>
        IF Exact = {}
        THEN found = NotFoundMatch
        ELSE /\ found.handler = handlers[Least(Exact)]
             /\ found.params =
                   RawParams(Registered(Least(Exact)).pathname, request.path)

\* What validating the failing part of the current request reports, and the
\* messages among it for one field, in order.
FailedIssues ==
    IF ~ParamsCheck.ok
    THEN safeParse(Matched.paramsSchema, found.params).issues
    ELSE IF ~QueryCheck.ok
    THEN safeParse(Matched.querySchema, request.query).issues
    ELSE safeParse(Matched.bodySchema, BodyRead.value).issues

MessagesFor(issues, field) ==
    LET about == SelectSeq(issues, LAMBDA issue : join(issue.path) = field)
    IN  [k \in DOMAIN about |-> about[k].message]

\* C26: when validation fails, the field errors sent have one key per failing
\* field, the dotted path of the field, and under each key every message
\* reported for that field, in the order of the issues.
C26_EveryFailingFieldReported ==
    (pc = "done" /\ FailedValidations # {}) =>
        /\ DOMAIN FieldErrorsSent =
              {join(FailedIssues[i].path) : i \in DOMAIN FailedIssues}
        /\ \A field \in DOMAIN FieldErrorsSent :
              FieldErrorsSent[field] = MessagesFor(FailedIssues, field)

\* A body with two invalid nested fields and a field invalid in two ways was
\* answered with all four messages.
C26_Witness ==
    /\ pc = "done"
    /\ FailedValidations # {}
    /\ DOMAIN FieldErrorsSent = {"user.name", "user.email", "contact"}
    /\ FieldErrorsSent["user.name"] = <<"Name is required">>
    /\ FieldErrorsSent["user.email"] = <<"Invalid email address">>
    /\ FieldErrorsSent["contact"] =
          <<"Email is too short", "Invalid email address">>

Arms == {i \in DOMAIN bootstrap.log : bootstrap.log[i] = "setTimeout"}
Stops ==
    {i \in DOMAIN bootstrap.log :
        bootstrap.log[i] \in {"stop returned", "stop threw"}}

C27_AtMostOnce ==
    /\ Cardinality(Stops) <= 1
    /\ Cardinality(Arms) <= 1
    /\ Stops # {} => bootstrap.isShuttingDown

C27_FlagStays == bootstrap.isShuttingDown => bootstrap'.isShuttingDown

\* C27: once shutdown has been called isShuttingDown stays true, and however
\* many signals are delivered or calls made, server.stop() is called at most
\* once and the force-exit timer is armed at most once.
C27_ShutdownIdempotent == []C27_AtMostOnce /\ [][C27_FlagStays]_vars

\* Two signals were delivered; the server was stopped once and the second
\* signal found the process gone.
C27_Witness ==
    /\ bootstrap.asked = 2
    /\ signals # <<>>
    /\ bootstrap.exit.done
    /\ Cardinality(Stops) = 1
    /\ Cardinality(Arms) = 1

ShutdownBegun == Alive /\ signals # <<>>

\* The timer callback could run: the timer is armed and the process lives.
ForceExitDue == Alive /\ bootstrap.forceExitTimeout = "armed"

C28_ExitCodes ==
    /\ \A s \in Stops : \E a \in Arms : a < s
    /\ bootstrap.isShuttingDown =>
          /\ bootstrap.exit.done
          /\ Stops # {}
          /\ \A s \in Stops :
                bootstrap.exit.code =
                    IF bootstrap.log[s] = "stop threw" THEN 1 ELSE 0
    /\ ~ForceExitDue

\* C28: once a signal has been delivered or shutdown() called, the process
\* exits: with code 0 when server.stop() returned and with code 1 when it
\* threw; the force-exit timer is armed before server.stop() is called, and
\* it never comes to fire, the call itself always reaching an exit.
C28_ShutdownExits == []C28_ExitCodes /\ (ShutdownBegun ~> bootstrap.exit.done)

\* A signal was answered by a shutdown whose server.stop() threw: exit code 1.
C28_Witness ==
    /\ bootstrap.exit.done
    /\ bootstrap.exit.code = 1
    /\ bootstrap.log = <<"setTimeout", "stop threw">>
    /\ bootstrap.asked = 1
    /\ signals = <<>>

====
